---------------------------- MODULE Spec2Model ----------------------------
(***************************************************************************)
(* A model of the two scripts of the repository:                          *)
(*   src/posenet/pose_camera.py  - draw_pose, avg_fps_counter and the      *)
(*                                 render_overlay callback of main();      *)
(*   src/streamming/client.py    - the camera streaming loop.              *)
(*                                                                         *)
(* Units.  Keypoint scores are Python floats in [0,1]; the model holds     *)
(* them in hundredths (0.2 is 20).  Clock readings of time.monotonic() are *)
(* integer ticks.  Raw keypoint coordinates are Python floats, box and     *)
(* source sizes Python ints, display coordinates ints; the true division,  *)
(* the subtraction and the multiplication of draw_pose are carried out in  *)
(* IEEE-754 binary64 (53-bit significand, round to nearest even), the      *)
(* arithmetic CPython uses for them.                                       *)
(***************************************************************************)
EXTENDS Integers, Sequences, FiniteSets, TLC

VARIABLES
    \* ---- draw_pose ----
    d_pc,            \* "ready" | "returned" | "raised" | "off"
    pose,            \* the pose passed in: a sequence of keypoints in iteration order
    inference_box,   \* <<box_x, box_y, box_w, box_h>>
    dwg,             \* the drawing surface: the sequence of elements added so far
    xys,             \* draw_pose's local dict label -> <<kp_x, kp_y>>
    \* ---- avg_fps_counter ----
    window_size,     \* the maxlen of the deque
    gen_state,       \* "created" | "suspended" | "finished"
    window,          \* the deque of deltas, oldest first
    prev,            \* the previous clock reading
    clock,           \* time.monotonic()
    yielded,         \* what the last next() produced
    advances,        \* number of times the generator body has run
    readings,        \* the clock readings taken by the generator, in order
    \* ---- render_overlay ----
    r_pc,            \* "idle" | "drawing" | "crashed" | "off"
    n,               \* main's nonlocal n
    sum_inference_time,
    outputs,         \* the poses ParseOutput returned for the frame
    pose_i,          \* index of the next pose of outputs to draw
    frames,          \* render_overlay invocations that returned
    \* ---- streaming loop ----
    s_pc,            \* position in client.py
    camera_opened,   \* camera.isOpened()
    frame,           \* "none" | "image" | "None"
    released,        \* number of camera.release() calls
    sent             \* number of footage_socket.send() calls

draw_vars == <<d_pc, pose, inference_box, dwg, xys>>
fps_vars == <<window_size, gen_state, window, prev, clock, yielded, advances, readings>>
render_vars == <<r_pc, n, sum_inference_time, outputs, pose_i, frames>>
stream_vars == <<s_pc, camera_opened, frame, released, sent>>
vars == <<draw_vars, fps_vars, render_vars, stream_vars>>

-----------------------------------------------------------------------------
(* Bounds of the model.                                                    *)

MaxWindow == 3       \* window capacities 1..MaxWindow
MaxDelta == 2        \* clock ticks between two readings: 0..MaxDelta
MaxAdvances == 6     \* next() calls on one estimator
NumLabels == 4       \* labels a pose of the ordering inputs draws from
MaxCoord == 12       \* raw keypoint coordinates -1..MaxCoord of the scaling inputs
MaxFrames == 3       \* frames rendered by render_overlay
MaxSent == 12        \* frames published by the streaming loop

-----------------------------------------------------------------------------
(* IEEE-754 binary64 arithmetic, as CPython carries out the true division, *)
(* the subtraction, the multiplication and the int() of draw_pose.         *)
(* A natural number is a sequence of limbs in base 2^14, least significant *)
(* first.  A float is [sign, m, exp] with value sign * M * 2^exp, where M, *)
(* the 53-bit significand (2^52 <= M < 2^53), is the four-limb number m;   *)
(* zero has sign 0.  Every operation computes the exact result and rounds  *)
(* it to nearest, ties to even.  Subnormals, infinities and NaN lie        *)
(* outside the values the model feeds draw_pose.                           *)

Precision == 53
LimbBits == 14

Abs(i) == IF i < 0 THEN -i ELSE i
Sign(i) == IF i < 0 THEN -1 ELSE IF i > 0 THEN 1 ELSE 0
Min(a, b) == IF a < b THEN a ELSE b
Max(a, b) == IF a < b THEN b ELSE a

RECURSIVE Pow2(_)
Pow2(i) == IF i = 0 THEN 1 ELSE 2 * Pow2(i - 1)

RECURSIVE BitLen(_)
BitLen(i) == IF i = 0 THEN 0 ELSE 1 + BitLen(i \div 2)

Base == Pow2(LimbBits)

\* Limb k (from 0, least significant) of a limb sequence, 0 beyond its ends.
Limb(limbs, k) == IF k >= 0 /\ k < Len(limbs) THEN limbs[k + 1] ELSE 0

\* The n low limbs of a limb sequence.
Fit(limbs, count) == [k \in 1..count |-> Limb(limbs, k - 1)]

\* The limbs of a natural number below 2^31.
BigOfInt(i) == <<i % Base, (i \div Base) % Base, i \div (Base * Base)>>

\* The value of a limb sequence that is below 2^31.
BigToInt(limbs) == Limb(limbs, 0) + Limb(limbs, 1) * Base + Limb(limbs, 2) * Base * Base

\* Column values (possibly negative or beyond a limb) turned into limbs by
\* carrying from column k on; the last carry is dropped, the caller provides
\* columns enough for it to be 0.
RECURSIVE Carried(_, _, _, _)
Carried(cols, k, carry, acc) ==
    IF k > Len(cols) THEN acc
    ELSE LET t == cols[k] + carry
         IN  Carried(cols, k + 1, t \div Base, Append(acc, t % Base))

BigAdd(a, b) ==
    Carried([k \in 1..(Max(Len(a), Len(b)) + 1) |-> Limb(a, k - 1) + Limb(b, k - 1)],
            1, 0, <<>>)

\* a - b for a >= b.
BigSub(a, b) ==
    Carried([k \in 1..Max(Len(a), Len(b)) |-> Limb(a, k - 1) - Limb(b, k - 1)],
            1, 0, <<>>)

\* a * b for b of at most four limbs.
BigMul(a, b) ==
    Carried([k \in 1..(Len(a) + 4) |->
                Limb(a, k - 1) * Limb(b, 0) + Limb(a, k - 2) * Limb(b, 1)
                + Limb(a, k - 3) * Limb(b, 2) + Limb(a, k - 4) * Limb(b, 3)],
            1, 0, <<>>)

\* a \div d and a % d for 0 < d < 2^16, by short division from limb k down.
RECURSIVE BigDivSmall(_, _, _, _)
BigDivSmall(a, d, k, st) ==
    IF k = 0 THEN st
    ELSE LET t == st.r * Base + a[k]
         IN  BigDivSmall(a, d, k - 1, [q |-> <<t \div d>> \o st.q, r |-> t % d])

BigShiftLeft(a, s) ==
    LET whole == s \div LimbBits
        part == s % LimbBits
    IN  [k \in 1..(Len(a) + whole + 1) |->
            ((Limb(a, k - 1 - whole) * Pow2(part)) % Base)
            + (Limb(a, k - 2 - whole) \div Pow2(LimbBits - part))]

BigShiftRight(a, s) ==
    LET whole == s \div LimbBits
        part == s % LimbBits
    IN  [k \in 1..Len(a) |->
            (Limb(a, k - 1 + whole) \div Pow2(part))
            + (Limb(a, k + whole) % Pow2(part)) * Pow2(LimbBits - part)]

BigIsZero(a) == \A k \in 1..Len(a) : a[k] = 0

BigLess(a, b) ==
    \E k \in 0..(Max(Len(a), Len(b)) - 1) :
        /\ Limb(a, k) < Limb(b, k)
        /\ \A j \in (k + 1)..(Max(Len(a), Len(b)) - 1) : Limb(a, j) = Limb(b, j)

BigBitLen(a) ==
    LET set == {k \in 1..Len(a) : a[k] # 0}
    IN  IF set = {} THEN 0
        ELSE LET top == CHOOSE k \in set : \A j \in set : j <= k
             IN  (top - 1) * LimbBits + BitLen(a[top])

\* Bit k (from 0) of a limb sequence.
Bit(a, k) == (Limb(a, k \div LimbBits) \div Pow2(k % LimbBits)) % 2

\* Whether any of the s low bits of a limb sequence is set.
LowBitsSet(a, s) ==
    \/ \E k \in 0..(Len(a) - 1) : k < s \div LimbBits /\ Limb(a, k) # 0
    \/ Limb(a, s \div LimbBits) % Pow2(s % LimbBits) # 0

FloatZero == [sign |-> 0, m |-> <<0, 0, 0, 0>>, exp |-> 0]

\* The float nearest to sign * (big + fraction) * 2^exp, ties to even, where
\* inexact says whether a fraction in (0, 1) was cut off big already.
RoundNearestEven(sign, big, exp, inexact) ==
    LET len == BigBitLen(big)
        s == len - Precision
    IN  IF len = 0 THEN FloatZero
        ELSE IF s <= 0
        THEN [sign |-> sign, m |-> Fit(BigShiftLeft(big, -s), 4), exp |-> exp + s]
        ELSE LET m == Fit(BigShiftRight(big, s), 4)
                 sticky == inexact \/ LowBitsSet(big, s - 1)
             IN  IF Bit(big, s - 1) = 1 /\ (sticky \/ m[1] % 2 = 1)
                 THEN LET up == BigAdd(m, <<1>>)
                      IN  IF BigBitLen(up) > Precision
                          THEN [sign |-> sign, m |-> Fit(BigShiftRight(up, 1), 4),
                                exp |-> exp + s + 1]
                          ELSE [sign |-> sign, m |-> Fit(up, 4), exp |-> exp + s]
                 ELSE [sign |-> sign, m |-> m, exp |-> exp + s]

\* float(i) for a Python int of magnitude below 2^31: exact.
float(i) == RoundNearestEven(Sign(i), BigOfInt(Abs(i)), 0, FALSE)

\* a / b for Python ints a, b with 0 < |b| < 2^16: the correctly rounded
\* quotient, from |a| * 2^70 \div |b| and whether a remainder was left.
float_div(a, b) ==
    LET num == BigShiftLeft(BigOfInt(Abs(a)), 5 * LimbBits)
        quot == BigDivSmall(num, Abs(b), Len(num), [q |-> <<>>, r |-> 0])
    IN  RoundNearestEven(Sign(a) * Sign(b), quot.q, -(5 * LimbBits), quot.r # 0)

\* x - y for floats: the exact difference of the aligned significands, rounded.
float_sub(x, y) ==
    IF y.sign = 0 THEN x
    ELSE IF x.sign = 0 THEN [y EXCEPT !.sign = -y.sign]
    ELSE LET exp == Min(x.exp, y.exp)
             xm == BigShiftLeft(x.m, x.exp - exp)
             ym == BigShiftLeft(y.m, y.exp - exp)
         IN  IF x.sign # y.sign THEN RoundNearestEven(x.sign, BigAdd(xm, ym), exp, FALSE)
             ELSE IF BigLess(xm, ym)
             THEN RoundNearestEven(-x.sign, BigSub(ym, xm), exp, FALSE)
             ELSE RoundNearestEven(x.sign, BigSub(xm, ym), exp, FALSE)

\* x * y for floats: the exact 106-bit product of the significands, rounded.
float_mul(x, y) ==
    IF x.sign = 0 \/ y.sign = 0 THEN FloatZero
    ELSE RoundNearestEven(x.sign * y.sign, BigMul(x.m, y.m), x.exp + y.exp, FALSE)

\* The integer part of |f|, for |f| < 2^31.
IntegerPart(f) ==
    IF f.sign = 0 \/ -f.exp >= Precision THEN 0
    ELSE BigToInt(BigShiftRight(f.m, -f.exp))

\* Whether f has a fractional part.
HasFraction(f) ==
    /\ f.sign # 0
    /\ f.exp < 0
    /\ (-f.exp >= Precision \/ LowBitsSet(f.m, -f.exp))

\* Mutant of int: rounds toward minus infinity.
int_floor(f) ==
    IF f.sign < 0 /\ HasFraction(f) THEN -IntegerPart(f) - 1 ELSE f.sign * IntegerPart(f)

\* Python's int(f): truncation toward zero.
int(f) == f.sign * IntegerPart(f)

-----------------------------------------------------------------------------
(* pose_camera.py: the skeleton renderer.                                  *)

EDGES == <<
    <<"nose", "left eye">>,
    <<"nose", "right eye">>,
    <<"nose", "left ear">>,
    <<"nose", "right ear">>,
    <<"left ear", "left eye">>,
    <<"right ear", "right eye">>,
    <<"left eye", "right eye">>,
    <<"left shoulder", "right shoulder">>,
    <<"left shoulder", "left elbow">>,
    <<"left shoulder", "left hip">>,
    <<"right shoulder", "right elbow">>,
    <<"right shoulder", "right hip">>,
    <<"left elbow", "left wrist">>,
    <<"right elbow", "right wrist">>,
    <<"left hip", "right hip">>,
    <<"left hip", "left knee">>,
    <<"right hip", "right knee">>,
    <<"left knee", "left ankle">>,
    <<"right knee", "right ankle">> >>

Threshold == 20      \* threshold=0.2, in hundredths
Radius == 5
StrokeWidth == 2
Color == "yellow"
SrcSize == <<640, 480>>

Circle(kp_x, kp_y, score, color) ==
    [kind |-> "circle", center |-> <<kp_x, kp_y>>, r |-> Radius, fill |-> "cyan",
     fill_opacity |-> score, stroke |-> color]

Line(a_xy, b_xy, color) ==
    [kind |-> "line", start |-> a_xy, end |-> b_xy, stroke |-> color,
     stroke_width |-> StrokeWidth]

\* Mutant of BelowThreshold: a score equal to the threshold is skipped too.
BelowOrAtThreshold(keypoint, threshold) == keypoint.score <= threshold

\* if keypoint.score < threshold: continue
BelowThreshold(keypoint, threshold) == keypoint.score < threshold

\* int((raw - box_origin) * scale) for a float raw, a Python int box_origin
\* (converted to float by the subtraction) and a float scale.
kp_coord(raw, box_origin, scale) ==
    int(float_mul(float_sub(raw, float(box_origin)), scale))

\* The first loop of draw_pose, from keypoint i on; st is [dwg, xys].
RECURSIVE draw_keypoints(_, _, _, _, _, _, _)
draw_keypoints(st, keypoints, i, box, scale, color, threshold) ==
    IF i > Len(keypoints) THEN st
    ELSE LET keypoint == keypoints[i]
         IN  IF BelowThreshold(keypoint, threshold)
             THEN draw_keypoints(st, keypoints, i + 1, box, scale, color, threshold)
             ELSE LET kp_y == kp_coord(keypoint.yx[1], box[2], scale[2])
                      kp_x == kp_coord(keypoint.yx[2], box[1], scale[1])
                      next == [dwg |-> Append(st.dwg,
                                              Circle(kp_x, kp_y, keypoint.score, color)),
                               xys |-> (keypoint.label :> <<kp_x, kp_y>>) @@ st.xys]
                  IN  draw_keypoints(next, keypoints, i + 1, box, scale, color, threshold)

\* if a not in xys or b not in xys: continue
EdgeSkipped(edge, dict) == edge[1] \notin DOMAIN dict \/ edge[2] \notin DOMAIN dict

\* Mutant of draw_edges: walks EDGES from its last entry to entry i.
RECURSIVE draw_edges_down(_, _, _, _, _)
draw_edges_down(canvas, dict, j, i, color) ==
    IF j < i THEN canvas
    ELSE IF EdgeSkipped(EDGES[j], dict) THEN draw_edges_down(canvas, dict, j - 1, i, color)
    ELSE draw_edges_down(Append(canvas, Line(dict[EDGES[j][1]], dict[EDGES[j][2]], color)),
                         dict, j - 1, i, color)

draw_edges_reversed(canvas, dict, i, color) ==
    draw_edges_down(canvas, dict, Len(EDGES), i, color)

\* The second loop of draw_pose, from edge i on.
RECURSIVE draw_edges(_, _, _, _)
draw_edges(canvas, dict, i, color) ==
    IF i > Len(EDGES) THEN canvas
    ELSE IF EdgeSkipped(EDGES[i], dict) THEN draw_edges(canvas, dict, i + 1, color)
    ELSE draw_edges(Append(canvas, Line(dict[EDGES[i][1]], dict[EDGES[i][2]], color)),
                    dict, i + 1, color)

\* What the call leaves when src_size[0] / box_w or src_size[1] / box_h raises.
ZeroDivision(canvas) == [raised |-> "ZeroDivisionError", dwg |-> canvas, xys |-> <<>>]

\* draw_pose from the scale factors on, for a box of non-zero width and height:
\* scale_x and scale_y are computed once, then the first loop runs to its end,
\* then the second.
draw_loops(canvas, keypoints, src_size, box, color, threshold) ==
    CHOOSE res \in
        {[raised |-> "none", dwg |-> draw_edges(st.dwg, st.xys, 1, color),
          xys |-> st.xys] :
            st \in {draw_keypoints([dwg |-> canvas, xys |-> <<>>], keypoints, 1, box,
                                   scale, color, threshold) :
                        scale \in {<<float_div(src_size[1], box[3]),
                                     float_div(src_size[2], box[4])>>}}} : TRUE

\* Mutant of draw_pose: the lines are added before the circles.
draw_pose_lines_first(canvas, keypoints, src_size, box, color, threshold) ==
    IF box[3] = 0 \/ box[4] = 0 THEN ZeroDivision(canvas)
    ELSE CHOOSE res \in
            {[raised |-> "none",
              dwg |-> draw_edges(canvas, st.xys, 1, color) \o st.dwg,
              xys |-> st.xys] :
                st \in {draw_keypoints([dwg |-> <<>>, xys |-> <<>>], keypoints, 1, box,
                                       scale, color, threshold) :
                            scale \in {<<float_div(src_size[1], box[3]),
                                         float_div(src_size[2], box[4])>>}}} : TRUE

\* Mutant of draw_pose: the division is put off until a keypoint is scaled, so
\* a pose without a keypoint at the threshold passes a zero box.
draw_pose_late_division(canvas, keypoints, src_size, box, color, threshold) ==
    IF box[3] # 0 /\ box[4] # 0
    THEN draw_loops(canvas, keypoints, src_size, box, color, threshold)
    ELSE IF \E i \in 1..Len(keypoints) : ~BelowThreshold(keypoints[i], threshold)
    THEN ZeroDivision(canvas)
    ELSE [raised |-> "none", dwg |-> canvas, xys |-> <<>>]

\* draw_pose(dwg, pose, src_size, inference_box, color, threshold): what it adds
\* to the canvas, its local xys, and the exception it raises, if any.  The box
\* holds Python numbers, so a zero width or height raises at the division.
draw_pose(canvas, keypoints, src_size, box, color, threshold) ==
    IF box[3] = 0 \/ box[4] = 0 THEN ZeroDivision(canvas)
    ELSE draw_loops(canvas, keypoints, src_size, box, color, threshold)

-----------------------------------------------------------------------------
(* Inputs of draw_pose.                                                    *)

\* The labels of EDGES, in order of first appearance.
RECURSIVE LabelsFrom(_, _)
LabelsFrom(i, acc) ==
    IF i > Len(EDGES) THEN acc
    ELSE LET has(l) == \E j \in 1..Len(acc) : acc[j] = l
             a1 == IF has(EDGES[i][1]) THEN acc ELSE Append(acc, EDGES[i][1])
             a2 == IF \E j \in 1..Len(a1) : a1[j] = EDGES[i][2] THEN a1
                   ELSE Append(a1, EDGES[i][2])
         IN  LabelsFrom(i + 1, a2)

EdgeLabels == LabelsFrom(1, <<>>)

\* Scores just below and exactly at the threshold.
OrderScores == {Threshold - 1, Threshold}

\* Ordering inputs: every sequence of keypoints with distinct labels among the
\* first NumLabels labels, each at a position of its own.
OrderKeypoints ==
    {[label |-> EdgeLabels[i], score |-> s, yx |-> <<float(10 * i), float(7 * i + 3)>>] :
        i \in 1..Min(NumLabels, Len(EdgeLabels)), s \in OrderScores}

RECURSIVE OrderPosesOfLen(_)
OrderPosesOfLen(k) ==
    IF k = 0 THEN {<<>>}
    ELSE {Append(pk[1], pk[2]) :
            pk \in {qk \in OrderPosesOfLen(k - 1) \X OrderKeypoints :
                      \A j \in 1..Len(qk[1]) : qk[1][j].label # qk[2].label}}

OrderPoses == UNION {OrderPosesOfLen(k) : k \in 0..Min(NumLabels, Len(EdgeLabels))}

OrderBoxes == {<<0, 0, 640, 480>>}

\* Scaling inputs: "nose" at a raw position, whole or fractional as the pose
\* engine delivers it, "left eye" fixed, under boxes with and without offset,
\* rescale and zero extent.
IntCoords == (-1..MaxCoord) \cup {50, 100, 200}

Fractions ==
    {float_div(a, b) : a \in ((-1..MaxCoord) \ {0}) \cup {23, 49}, b \in {2, 3, 4, 5, 10}}

Coords == {float(c) : c \in IntCoords} \cup Fractions

ScalePositions ==
    {<<float(c), float(c + 1)>> : c \in IntCoords}
        \cup {<<c, float(100)>> : c \in Coords}
        \cup {<<c, c>> : c \in Fractions}
        \cup {<<float(200), float(100)>>, <<float(50), float(50)>>}

ScalePoses ==
    {<<[label |-> "nose", score |-> s, yx |-> yx],
       [label |-> "left eye", score |-> 70, yx |-> <<float(60), float(70)>>]>> :
        s \in {Threshold - 1, Threshold}, yx \in ScalePositions}

ScaleBoxes ==
    {<<o[1], o[2], w, h>> : o \in {<<0, 0>>, <<2, 1>>}, w \in {0, 11, 128, 320, 640},
                            h \in {0, 11, 160, 240, 480}}

DrawInputs ==
    (OrderPoses \X OrderBoxes) \cup ((ScalePoses \cup {<<>>}) \X ScaleBoxes)

-----------------------------------------------------------------------------
(* Idle values of the parts a specification does not run.                  *)

DrawOff ==
    /\ d_pc = "off" /\ pose = <<>> /\ inference_box = <<0, 0, 0, 0>>
    /\ dwg = <<>> /\ xys = <<>>

FpsOff ==
    /\ window_size = 0 /\ gen_state = "off" /\ window = <<>> /\ prev = 0
    /\ clock = 0 /\ yielded = "none" /\ advances = 0 /\ readings = <<>>

RenderOff ==
    /\ r_pc = "off" /\ n = 0 /\ sum_inference_time = 0 /\ outputs = <<>>
    /\ pose_i = 0 /\ frames = 0

StreamOff ==
    /\ s_pc = "off" /\ camera_opened = FALSE /\ frame = "none"
    /\ released = 0 /\ sent = 0

-----------------------------------------------------------------------------
(* SpecDraw: one call of draw_pose on a fresh canvas.                      *)

InitDraw ==
    /\ d_pc = "ready"
    /\ \E inp \in DrawInputs : pose = inp[1] /\ inference_box = inp[2]
    /\ dwg = <<>>
    /\ xys = <<>>
    /\ FpsOff /\ RenderOff /\ StreamOff

DrawPoseCall ==
    /\ d_pc = "ready"
    /\ \E res \in {draw_pose(dwg, pose, SrcSize, inference_box, Color, Threshold)} :
           /\ d_pc' = IF res.raised = "none" THEN "returned" ELSE "raised"
           /\ dwg' = res.dwg
           /\ xys' = res.xys
    /\ UNCHANGED <<pose, inference_box, fps_vars, render_vars, stream_vars>>

NextDraw == DrawPoseCall

SpecDraw == InitDraw /\ [][NextDraw]_vars

-----------------------------------------------------------------------------
(* pose_camera.py: the FPS estimator.                                      *)

RECURSIVE SumFrom(_, _, _)
SumFrom(seq, i, acc) == IF i > Len(seq) THEN acc ELSE SumFrom(seq, i + 1, acc + seq[i])

\* sum(window)
sum(seq) == SumFrom(seq, 1, 0)

\* Mutant of deque_append: the deque has no maxlen.
deque_append_unbounded(deque, x, maxlen) == Append(deque, x)

\* Mutant of deque_append: a full deque drops its newest item.
deque_append_drop_newest(deque, x, maxlen) ==
    IF maxlen = 0 THEN deque
    ELSE IF Len(deque) >= maxlen THEN Append(SubSeq(deque, 1, Len(deque) - 1), x)
    ELSE Append(deque, x)

\* collections.deque(maxlen=maxlen).append(x): a full deque drops its oldest item.
deque_append(deque, x, maxlen) ==
    IF maxlen = 0 THEN deque
    ELSE IF Len(deque) >= maxlen THEN Append(Tail(deque), x)
    ELSE Append(deque, x)

\* What next() yields: a rate num/den, or the exception that ends the call.
Yield(num, den) == [raised |-> "none", num |-> num, den |-> den]
Raise(exc) == [raised |-> exc, num |-> 0, den |-> 1]

\* Mutant of NewPrev: prev = curr is missing.
NewPrevStale(old, curr) == old

\* The previous reading the generator keeps after reading curr.
NewPrev(old, curr) == curr

\* One next() on the generator avg_fps_counter(maxlen) in state g = [gen_state,
\* window, prev], the clock reading now: the generator's new state and what the
\* call produces.
avg_fps_counter(g, maxlen, now) ==
    IF g.gen_state = "created"
    THEN [gen_state |-> "suspended", window |-> <<>>, prev |-> now,
          yielded |-> Yield(0, 1)]
    ELSE IF g.gen_state = "suspended"
    THEN LET curr == now
             appended == deque_append(g.window, curr - g.prev, maxlen)
         IN  IF sum(appended) = 0
             THEN [gen_state |-> "finished", window |-> appended,
                   prev |-> NewPrev(g.prev, curr),
                   yielded |-> Raise("ZeroDivisionError")]
             ELSE [gen_state |-> "suspended", window |-> appended,
                   prev |-> NewPrev(g.prev, curr),
                   yielded |-> Yield(Len(appended), sum(appended))]
    ELSE [gen_state |-> "finished", window |-> g.window, prev |-> g.prev,
          yielded |-> Raise("StopIteration")]

\* next(fps_counter) at clock reading now, on the estimator of the state.
NextFps(now) ==
    LET g == avg_fps_counter([gen_state |-> gen_state, window |-> window, prev |-> prev],
                             window_size, now)
        ran == gen_state # "finished"
    IN  /\ gen_state' = g.gen_state
        /\ window' = g.window
        /\ prev' = g.prev
        /\ yielded' = g.yielded
        /\ advances' = IF ran THEN advances + 1 ELSE advances
        /\ readings' = IF ran THEN Append(readings, now) ELSE readings

-----------------------------------------------------------------------------
(* SpecFps: one estimator of capacity 1..MaxWindow, advanced MaxAdvances   *)
(* times; the monotonic clock moves 0..MaxDelta ticks between readings.    *)

InitFps ==
    /\ window_size \in 1..MaxWindow
    /\ gen_state = "created"
    /\ window = <<>>
    /\ prev = 0
    /\ clock = 0
    /\ yielded = Yield(0, 1)
    /\ advances = 0
    /\ readings = <<>>
    /\ DrawOff /\ RenderOff /\ StreamOff

FpsAdvance ==
    /\ advances < MaxAdvances
    /\ yielded.raised # "StopIteration"
    /\ \E delta \in 0..MaxDelta :
        /\ clock' = clock + delta
        /\ NextFps(clock + delta)
    /\ UNCHANGED <<window_size, draw_vars, render_vars, stream_vars>>

NextFpsSpec == FpsAdvance

SpecFps == InitFps /\ [][NextFpsSpec]_vars

-----------------------------------------------------------------------------
(* pose_camera.py: main() and its render_overlay callback.                 *)

FpsWindow == 30

Text(x, y, text, fill, font_size) ==
    [kind |-> "text", text |-> text, insert |-> <<x, y>>, fill |-> fill,
     font_size |-> font_size]

shadow_text(canvas, x, y, text, font_size) ==
    Append(Append(canvas, Text(x + 1, y + 1, text, "black", font_size)),
           Text(x, y, text, "white", font_size))

\* The values formatted into text_line: avg_inference_time and
\* 1000 / avg_inference_time as fractions, the yielded rate, len(outputs).
text_line(total, count, rate, nposes) ==
    [avg_inference_time |-> <<total, count>>, fps |-> <<1000 * count, total>>,
     true_fps |-> <<rate.num, rate.den>>, nposes |-> nposes]

NosePose ==
    <<[label |-> "nose", score |-> 90, yx |-> <<float(200), float(100)>>],
      [label |-> "left eye", score |-> 80, yx |-> <<float(190), float(110)>>],
      [label |-> "right eye", score |-> 10, yx |-> <<float(190), float(90)>>]>>

ArmPose ==
    <<[label |-> "left elbow", score |-> 60, yx |-> <<float(300), float(400)>>],
      [label |-> "left shoulder", score |-> 70, yx |-> <<float(250), float(380)>>],
      [label |-> "left wrist", score |-> 50, yx |-> <<float(350), float(420)>>]>>

OverlayOutputs == {<<>>, <<NosePose>>, <<NosePose, ArmPose>>}
OverlayTimes == {0, 5}
OverlayBoxes == {<<0, 0, 640, 480>>, <<0, 0, 0, 480>>}

InitOverlay ==
    /\ r_pc = "idle"
    /\ n = 0
    /\ sum_inference_time = 0
    /\ outputs = <<>>
    /\ pose_i = 0
    /\ frames = 0
    /\ window_size = FpsWindow
    /\ gen_state = "created"
    /\ window = <<>>
    /\ prev = 0
    /\ clock = 0
    /\ yielded = Yield(0, 1)
    /\ advances = 0
    /\ readings = <<>>
    /\ DrawOff /\ StreamOff

\* render_overlay up to the loop over the poses: parse, count, format the text
\* line (which advances the estimator) and draw it.
RenderBegin ==
    /\ r_pc = "idle"
    /\ frames < MaxFrames
    /\ \E outs \in OverlayOutputs, it \in OverlayTimes, box \in OverlayBoxes,
          delta \in 0..MaxDelta :
        /\ n' = n + 1
        /\ sum_inference_time' = sum_inference_time + it
        /\ clock' = clock + delta
        /\ outputs' = outs
        /\ inference_box' = box
        /\ IF sum_inference_time + it = 0
           THEN \* 1000 / avg_inference_time raises before next(fps_counter)
                /\ r_pc' = "crashed"
                /\ UNCHANGED <<gen_state, window, prev, yielded, advances, readings,
                               dwg, pose_i>>
           ELSE /\ NextFps(clock + delta)
                /\ IF yielded'.raised # "none"
                   THEN r_pc' = "crashed" /\ UNCHANGED <<dwg, pose_i>>
                   ELSE /\ r_pc' = "drawing"
                        /\ pose_i' = 1
                        /\ dwg' = shadow_text(<<>>, 10, 20,
                                              text_line(sum_inference_time + it, n + 1,
                                                        yielded', Len(outs)), 16)
    /\ UNCHANGED <<window_size, frames, d_pc, pose, xys, stream_vars>>

\* Mutant of RenderDrawPose: the estimator is advanced for every pose drawn.
RenderDrawPoseAdvancing ==
    /\ r_pc = "drawing"
    /\ pose_i <= Len(outputs)
    /\ LET res == draw_pose(dwg, outputs[pose_i], SrcSize, inference_box, Color,
                            Threshold)
       IN  IF res.raised # "none"
           THEN r_pc' = "crashed" /\ UNCHANGED <<dwg, pose_i>>
           ELSE r_pc' = "drawing" /\ dwg' = res.dwg /\ pose_i' = pose_i + 1
    /\ NextFps(clock)
    /\ UNCHANGED <<n, sum_inference_time, outputs, frames, inference_box, d_pc, pose,
                   xys, window_size, clock, stream_vars>>

\* One iteration of "for pose in outputs: draw_pose(...)".
RenderDrawPose ==
    /\ r_pc = "drawing"
    /\ pose_i <= Len(outputs)
    /\ LET res == draw_pose(dwg, outputs[pose_i], SrcSize, inference_box, Color,
                            Threshold)
       IN  IF res.raised # "none"
           THEN r_pc' = "crashed" /\ UNCHANGED <<dwg, pose_i>>
           ELSE r_pc' = "drawing" /\ dwg' = res.dwg /\ pose_i' = pose_i + 1
    /\ UNCHANGED <<n, sum_inference_time, outputs, frames, inference_box, d_pc, pose,
                   xys, fps_vars, stream_vars>>

\* return (svg_canvas.tostring(), False)
RenderReturn ==
    /\ r_pc = "drawing"
    /\ pose_i > Len(outputs)
    /\ r_pc' = "idle"
    /\ frames' = frames + 1
    /\ dwg' = <<>>
    /\ outputs' = <<>>
    /\ pose_i' = 0
    /\ inference_box' = <<0, 0, 0, 0>>
    /\ UNCHANGED <<n, sum_inference_time, d_pc, pose, xys, fps_vars, stream_vars>>

NextOverlay == RenderBegin \/ RenderDrawPose \/ RenderReturn

SpecOverlay == InitOverlay /\ [][NextOverlay]_vars

-----------------------------------------------------------------------------
(* client.py: the streaming loop.                                          *)

InitStream ==
    /\ s_pc = "while"
    /\ camera_opened \in BOOLEAN      \* cv2.VideoCapture(1) may fail to open
    /\ frame = "none"
    /\ released = 0
    /\ sent = 0
    /\ DrawOff /\ FpsOff /\ RenderOff

\* while camera.isOpened():
LoopTest ==
    /\ s_pc = "while"
    /\ sent < MaxSent
    /\ s_pc' = IF camera_opened THEN "read" ELSE "exit"
    /\ UNCHANGED <<camera_opened, frame, released, sent>>
    /\ UNCHANGED <<draw_vars, fps_vars, render_vars>>

\* grabbed, frame = camera.read(): a failed read returns (False, None)
CameraRead ==
    /\ s_pc = "read"
    /\ \E grabbed \in BOOLEAN : frame' = IF grabbed THEN "image" ELSE "None"
    /\ s_pc' = "resize"
    /\ UNCHANGED <<camera_opened, released, sent>>
    /\ UNCHANGED <<draw_vars, fps_vars, render_vars>>

\* frame = cv2.resize(frame, (640, 480)): raises cv2.error on None, which the
\* except KeyboardInterrupt clause does not catch
Resize ==
    /\ s_pc = "resize"
    /\ s_pc' = IF frame = "None" THEN "crashed" ELSE "encode"
    /\ UNCHANGED <<camera_opened, frame, released, sent>>
    /\ UNCHANGED <<draw_vars, fps_vars, render_vars>>

\* cv2.imencode and base64.b64encode
Encode ==
    /\ s_pc = "encode"
    /\ s_pc' = "send"
    /\ UNCHANGED <<camera_opened, frame, released, sent>>
    /\ UNCHANGED <<draw_vars, fps_vars, render_vars>>

\* footage_socket.send(jpg_as_text)
Send ==
    /\ s_pc = "send"
    /\ sent' = sent + 1
    /\ s_pc' = "while"
    /\ UNCHANGED <<camera_opened, frame, released>>
    /\ UNCHANGED <<draw_vars, fps_vars, render_vars>>

\* KeyboardInterrupt inside the try block: release, destroyAllWindows, break
InterruptInTry ==
    /\ s_pc \in {"read", "resize", "encode", "send"}
    /\ released' = released + 1
    /\ camera_opened' = FALSE
    /\ s_pc' = "exit"
    /\ UNCHANGED <<frame, sent>>
    /\ UNCHANGED <<draw_vars, fps_vars, render_vars>>

\* KeyboardInterrupt while the loop condition is evaluated, outside the try
InterruptOutsideTry ==
    /\ s_pc = "while"
    /\ s_pc' = "interrupted"
    /\ UNCHANGED <<camera_opened, frame, released, sent>>
    /\ UNCHANGED <<draw_vars, fps_vars, render_vars>>

NextStream ==
    \/ LoopTest
    \/ CameraRead
    \/ Resize
    \/ Encode
    \/ Send
    \/ InterruptInTry
    \/ InterruptOutsideTry

SpecStream == InitStream /\ [][NextStream]_vars

-----------------------------------------------------------------------------
(* Notions the properties below are stated with.                           *)

Circles == SelectSeq(dwg, LAMBDA e : e.kind = "circle")
Lines == SelectSeq(dwg, LAMBDA e : e.kind = "line")

\* The keypoints of the pose that reach the threshold, in iteration order.
Qualifying == SelectSeq(pose, LAMBDA kp : kp.score >= Threshold)
QualifyingLabels == {Qualifying[i].label : i \in 1..Len(Qualifying)}

\* The edges of the fixed list with both labels qualifying, in list order.
QualifyingEdges ==
    SelectSeq(EDGES, LAMBDA e : e[1] \in QualifyingLabels /\ e[2] \in QualifyingLabels)

\* The fractional bits the exact quotient is compared on: the three roundings
\* of draw_pose move a product of magnitude below 2^13 by less than 2^-38.
NearBits == Precision - 15

\* sa * a - sb * b for signs sa, sb and limb sequences a, b, as [sign, big].
SignedDifference(sa, a, sb, b) ==
    IF sb = 0 \/ BigIsZero(b) THEN [sign |-> IF BigIsZero(a) THEN 0 ELSE sa, big |-> a]
    ELSE IF sa = 0 \/ BigIsZero(a) THEN [sign |-> -sb, big |-> b]
    ELSE IF sa # sb THEN [sign |-> sa, big |-> BigAdd(a, b)]
    ELSE IF BigLess(a, b) THEN [sign |-> -sa, big |-> BigSub(b, a)]
    ELSE IF BigLess(b, a) THEN [sign |-> sa, big |-> BigSub(a, b)]
    ELSE [sign |-> 0, big |-> <<0>>]

\* The real number (raw - off) * source / extent for the value the float raw
\* holds, in exact integer arithmetic: its sign and the limbs of
\* floor(|(raw - off) * source / extent| * 2^NearBits).
ExactQuotient(raw, off, source, extent) ==
    LET k == IF raw.exp < 0 THEN -raw.exp ELSE 0
        diff == SignedDifference(raw.sign, BigShiftLeft(raw.m, raw.exp + k),
                                 Sign(off), BigShiftLeft(BigOfInt(Abs(off)), k))
        num == BigShiftLeft(BigMul(diff.big, BigOfInt(Abs(source))), NearBits)
        quot == BigDivSmall(num, Abs(extent), Len(num), [q |-> <<>>, r |-> 0])
    IN  [sign |-> diff.sign * Sign(source) * Sign(extent),
         scaled |-> BigShiftRight(quot.q, k)]

\* trunc((raw - off) * source / extent) of the real numbers.
ExactTrunc(raw, off, source, extent) ==
    LET q == ExactQuotient(raw, off, source, extent)
    IN  q.sign * BigToInt(BigShiftRight(q.scaled, NearBits))

\* The display position the real-number formula gives a raw position.
ExactXY(yx, box) ==
    <<ExactTrunc(yx[2], box[1], SrcSize[1], box[3]),
      ExactTrunc(yx[1], box[2], SrcSize[2], box[4])>>

\* The display position draw_pose computes for a raw position.
DisplayXY(yx, box) ==
    <<kp_coord(yx[2], box[1], float_div(SrcSize[1], box[3])),
      kp_coord(yx[1], box[2], float_div(SrcSize[2], box[4]))>>

RECURSIVE OddPart(_)
OddPart(i) == IF i % 2 = 0 THEN OddPart(i \div 2) ELSE i

\* Whether num / den is a binary fraction, hence an exact float.
Dyadic(num, den) == num % OddPart(den) = 0

\* The clock deltas between successive readings of the estimator.
Deltas == [i \in 1..(Len(readings) - 1) |-> readings[i + 1] - readings[i]]

\* The last k deltas.
LastDeltas(k) == SubSeq(Deltas, Len(Deltas) - k + 1, Len(Deltas))

StrictlyIncreasing(seq) == \A i \in 1..(Len(seq) - 1) : seq[i] < seq[i + 1]

-----------------------------------------------------------------------------
(* The FPS estimator.                                                      *)

\* C1: after the k-th advance the window holds min(k-1, N) deltas, never more
\* than N, and they are the most recent ones in order (a full window has dropped
\* its oldest delta).
C1_WindowBounded ==
    /\ Len(window) <= window_size
    /\ advances = 0 => window = <<>>
    /\ advances >= 1 =>
        /\ Len(window) = Min(advances - 1, window_size)
        /\ window = LastDeltas(Min(advances - 1, window_size))

C1_Witness ==
    /\ window_size = 2
    /\ advances = 4
    /\ readings = <<0, 2, 3, 5>>
    /\ window = <<1, 2>>

\* C2: under strictly increasing readings the first advance yields 0.0 with the
\* window empty, and the i-th yields min(i-1, N) / (sum of the last min(i-1, N)
\* deltas).
C2_YieldIsWindowRate ==
    (advances >= 1 /\ StrictlyIncreasing(readings)) =>
        IF advances = 1
        THEN yielded = Yield(0, 1) /\ window = <<>>
        ELSE LET held == Min(advances - 1, window_size)
                 total == sum(LastDeltas(held))
             IN  /\ yielded.raised = "none"
                 /\ yielded.den # 0
                 /\ yielded.num * total = held * yielded.den

C2_Witness ==
    /\ window_size = 2
    /\ advances = 5
    /\ StrictlyIncreasing(readings)
    /\ Deltas = <<2, 2, 1, 2>>
    /\ yielded = Yield(2, 3)

\* C7 as stated: an advance that reads the same clock value as the one before
\* it fails with ZeroDivisionError, whatever the window holds.
C7_ZeroDeltaAlwaysFails ==
    (advances >= 2 /\ yielded.raised # "StopIteration"
        /\ readings[advances] = readings[advances - 1])
    => yielded.raised = "ZeroDivisionError"

\* C7 amended: an advance fails with ZeroDivisionError exactly when every delta
\* the window holds after the append is 0; an advance with delta 0 whose window
\* still holds a positive delta yields len / sum.
C7_FailsIffWindowAllZero ==
    (advances >= 2 /\ yielded.raised # "StopIteration") =>
        LET held == LastDeltas(Min(advances - 1, window_size))
            all_zero == \A i \in 1..Len(held) : held[i] = 0
        IN  /\ yielded.raised = "ZeroDivisionError" <=> all_zero
            /\ ~all_zero => yielded = Yield(Len(held), sum(held))

C7_Witness ==
    /\ window_size = 2
    /\ advances = 4
    /\ Deltas = <<1, 0, 0>>
    /\ yielded.raised = "ZeroDivisionError"

-----------------------------------------------------------------------------
(* draw_pose.                                                              *)

\* C3: in a call that returns, the circles are one per keypoint with
\* score >= threshold (a score equal to the threshold included), and a keypoint
\* below the threshold has no entry in xys, no circle at its position and no
\* line ending there.
C3_CircleIffAtLeastThreshold ==
    d_pc = "returned" =>
        /\ Len(Circles) = Len(Qualifying)
        /\ \A k \in 1..Len(Qualifying) :
            /\ Circles[k].fill_opacity = Qualifying[k].score
            /\ Qualifying[k].label \in DOMAIN xys
            /\ Circles[k].center = xys[Qualifying[k].label]
        /\ \A i \in 1..Len(pose) :
            pose[i].score < Threshold =>
                /\ pose[i].label \notin DOMAIN xys
                /\ LET at == DisplayXY(pose[i].yx, inference_box)
                   IN  /\ \A k \in 1..Len(Circles) : Circles[k].center # at
                       /\ \A k \in 1..Len(Lines) :
                            Lines[k].start # at /\ Lines[k].end # at

C3_Witness ==
    /\ d_pc = "returned"
    /\ Len(pose) = 3
    /\ pose[1].score = Threshold - 1
    /\ pose[2].score = Threshold
    /\ pose[3].score = Threshold
    /\ Len(Circles) = 2
    /\ <<pose[2].label, pose[3].label>> \in {EDGES[i] : i \in 1..Len(EDGES)}

\* C4: in a call that returns, the lines are one per edge of EDGES whose two
\* labels reach the threshold, in EDGES order, whatever the iteration order of
\* the pose; with only nose and left eye qualifying, 2 circles and 1 line.
C4_LinesAreQualifyingEdges ==
    d_pc = "returned" =>
        /\ Len(EDGES) = 19
        /\ Lines = [k \in 1..Len(QualifyingEdges) |->
                        Line(xys[QualifyingEdges[k][1]], xys[QualifyingEdges[k][2]],
                             Color)]
        /\ QualifyingLabels = {"nose", "left eye"} =>
            /\ Len(Circles) = 2
            /\ Len(Lines) = 1
            /\ Lines[1] = Line(xys["nose"], xys["left eye"], Color)

C4_Witness ==
    /\ d_pc = "returned"
    /\ Len(pose) = 3
    /\ pose[1].label = "right eye"
    /\ pose[2].label = "left eye"
    /\ pose[3].label = "nose"
    /\ Len(Lines) = 3
    /\ Lines[1] = Line(xys["nose"], xys["left eye"], Color)
    /\ Lines[3] = Line(xys["left eye"], xys["right eye"], Color)

\* C5 as stated: every circle sits at the truncated exact quotient
\* (raw - offset) * source / box.
C5_ExactTruncation ==
    d_pc = "returned" =>
        \A k \in 1..Len(Qualifying) :
            Circles[k].center = ExactXY(Qualifying[k].yx, inference_box)

\* One coordinate of C5 amended: got is the exact truncation of
\* q = (raw - off) * source / extent, unless |q| lies within 2^-NearBits of a
\* whole number: from on or just above it the result may fall one short of it,
\* from just below it the result may reach it.  With a whole raw and a
\* binary-fraction scale the result is the exact truncation.
CoordinateOk(got, raw, off, source, extent) ==
    LET q == ExactQuotient(raw, off, source, extent)
        whole == BigToInt(BigShiftRight(q.scaled, NearBits))
    IN  /\ \/ got = q.sign * whole
           \/ /\ ~LowBitsSet(q.scaled, NearBits)
              /\ whole > 0
              /\ got = q.sign * (whole - 1)
           \/ /\ ~LowBitsSet(BigAdd(q.scaled, <<1>>), NearBits)
              /\ got = q.sign * (whole + 1)
        /\ (~HasFraction(raw) /\ Dyadic(source, extent)) => got = q.sign * whole

\* C5 amended: every circle (and line end) sits at int() of the double product
\* of the double difference raw - offset and the double quotient source / box.
\* That is the exact truncation of (raw - offset) * source / box unless this
\* quotient lies within 2^-38 of a whole number, where the result may be the
\* neighbouring pixel; the two examples of the claim hold.
C5_FloatTruncation ==
    d_pc = "returned" =>
        /\ \A k \in 1..Len(Qualifying) :
            /\ CoordinateOk(Circles[k].center[1], Qualifying[k].yx[2],
                            inference_box[1], SrcSize[1], inference_box[3])
            /\ CoordinateOk(Circles[k].center[2], Qualifying[k].yx[1],
                            inference_box[2], SrcSize[2], inference_box[4])
        /\ \A k \in 1..Len(Lines) :
            \E i, j \in 1..Len(Circles) :
                Lines[k].start = Circles[i].center /\ Lines[k].end = Circles[j].center
        /\ \A k \in 1..Len(Qualifying) :
            /\ (inference_box = <<0, 0, 640, 480>>
                    /\ Qualifying[k].yx = <<float(200), float(100)>>)
                    => Circles[k].center = <<100, 200>>
            /\ (inference_box = <<0, 0, 320, 240>>
                    /\ Qualifying[k].yx = <<float(50), float(50)>>)
                    => Circles[k].center = <<100, 100>>

\* A third of a pixel under a scale of exactly 3.0: the product rounds to 1.0.
C5_Witness ==
    /\ d_pc = "returned"
    /\ inference_box = <<0, 0, 640, 160>>
    /\ Len(pose) = 2
    /\ pose[1].yx = <<float_div(1, 3), float_div(1, 3)>>
    /\ pose[1].score = Threshold
    /\ Len(Circles) = 2
    /\ Circles[1].center = <<0, 1>>
    /\ ExactXY(pose[1].yx, inference_box) = <<0, 0>>

\* C8 as stated: with a box of zero width or zero height the call does not
\* raise but completes.
C8_ZeroBoxCompletes ==
    (d_pc # "ready" /\ (inference_box[3] = 0 \/ inference_box[4] = 0))
    => d_pc = "returned"

\* C8 amended: with a box of zero width or zero height the call raises
\* ZeroDivisionError while computing the scale factors, before any keypoint is
\* looked at: it emits nothing, whatever the pose.
C8_ZeroBoxRaises ==
    (d_pc # "ready" /\ (inference_box[3] = 0 \/ inference_box[4] = 0))
    => (d_pc = "raised" /\ dwg = <<>> /\ xys = <<>>)

C8_Witness ==
    /\ d_pc = "raised"
    /\ inference_box = <<0, 0, 320, 0>>
    /\ Len(Qualifying) = 2
    /\ dwg = <<>>

\* C9: in a call that returns, the canvas holds the circles of the qualifying
\* keypoints in the pose's iteration order, then the lines of the qualifying
\* edges in EDGES order; and the call leaves pose and box as they were passed.
C9_CirclesThenLines ==
    /\ [](d_pc = "returned" =>
            dwg = [k \in 1..Len(Qualifying) |->
                      Circle(xys[Qualifying[k].label][1], xys[Qualifying[k].label][2],
                             Qualifying[k].score, Color)]
                  \o [k \in 1..Len(QualifyingEdges) |->
                        Line(xys[QualifyingEdges[k][1]], xys[QualifyingEdges[k][2]],
                             Color)])
    /\ [][pose' = pose /\ inference_box' = inference_box]_vars

C9_Witness ==
    /\ d_pc = "returned"
    /\ Len(dwg) = 5
    /\ pose[1].label = "left ear"
    /\ dwg[1].kind = "circle"
    /\ dwg[3].kind = "circle"
    /\ dwg[4].kind = "line"
    /\ dwg[5].kind = "line"

-----------------------------------------------------------------------------
(* render_overlay.                                                         *)

\* C10: every render_overlay invocation that returns has advanced the estimator
\* exactly once, whatever the number of poses: between frames the estimator has
\* run once per returned frame, its readings in frame order; while the poses of
\* a frame are drawn it has run once more, and drawing a pose does not run it.
C10_OneAdvancePerFrame ==
    /\ r_pc = "idle" => (advances = frames /\ n = frames)
    /\ r_pc = "drawing" => (advances = frames + 1 /\ n = frames + 1)
    /\ r_pc \in {"idle", "drawing"} =>
        /\ Len(readings) = advances
        /\ \A i \in 1..(Len(readings) - 1) : readings[i] <= readings[i + 1]

C10_Witness ==
    /\ r_pc = "drawing"
    /\ frames = 1
    /\ Len(outputs) = 2
    /\ pose_i = 3
    /\ advances = 2
    /\ Len(Lines) = 3

-----------------------------------------------------------------------------
(* The streaming loop.                                                     *)

\* C6: on every way out of the loop (keyboard interrupt, failed read, loop
\* condition false) the capture has been released exactly once, and it is
\* never released twice.
C6_ReleasedExactlyOnce ==
    /\ released <= 1
    /\ s_pc \in {"exit", "crashed", "interrupted"} => released = 1

=============================================================================
